---- MODULE Spec2Model ----
(***************************************************************************)
(* Model of packing_checker.py: the UPC normaliser, the box ledger builder *)
(* (parse_boxes), the allocation pass and status classifier                *)
(* (main_results_page) and the order status view (order_status_page).      *)
(*                                                                         *)
(* Python strings are modelled as sequences of one-character strings, so   *)
(* that lstrip/strip/replace/split/isdigit/int act on characters.          *)
(***************************************************************************)
EXTENDS Integers, Sequences, FiniteSets, TLC

VARIABLES
    pc,                 \* position in the script
    box_file_contents,  \* parse_boxes argument: sequence of <<filename, lines>>
    fi,                 \* parse_boxes: index of the file being read
    li,                 \* parse_boxes: index of the line being read
    orders,             \* the order rows, in file order
    boxes,              \* the ledger dict: normalized UPC -> reference of its inner dict
    heap,               \* inner dict objects: reference -> (box_no -> qty)
    boxes_remaining,    \* main_results_page's pool: normalized UPC -> reference
    data,               \* main_results_page's result rows
    loc,                \* main_results_page's locals for the row being processed
    runs,               \* number of completed calls of main_results_page
    first_data,         \* history: the result rows of the first completed call
    parsed,             \* history: the ledger as parse_boxes returned it
    arg,                \* argument of the pure function under test
    ret                 \* results returned so far

vars == <<pc, box_file_contents, fi, li, orders, boxes, heap, boxes_remaining,
          data, loc, runs, first_data, parsed, arg, ret>>

(***************************************************************************)
(* Bounds of the model.                                                    *)
(***************************************************************************)
MaxLen == 4         \* longest raw UPC string given to normalize_upc
MaxOrders == 2      \* most order rows
MaxQty == 2         \* largest quantity in a ledger cell or a RESERVED field
MaxFiles == 2       \* most box files
MaxLines == 2       \* most lines in one box file
MaxRuns == 2        \* calls of main_results_page on the same inputs

(***************************************************************************)
(* Python str helpers.                                                     *)
(***************************************************************************)
Digits == {"0", "1", "2", "3", "4", "5", "6", "7", "8", "9"}

Whitespace == {" "}

\* ord(c) for the characters the model's inputs use
CharCode(c) ==
    CASE c = " " -> 32 [] c = "," -> 44 [] c = "." -> 46
      [] c = "0" -> 48 [] c = "1" -> 49 [] c = "2" -> 50 [] c = "3" -> 51
      [] c = "4" -> 52 [] c = "5" -> 53 [] c = "6" -> 54 [] c = "7" -> 55
      [] c = "8" -> 56 [] c = "9" -> 57
      [] c = "A" -> 65 [] c = "B" -> 66 [] c = "N" -> 78 [] c = "O" -> 79
      [] c = "T" -> 84 [] c = "X" -> 88
      [] c = "t" -> 116 [] c = "x" -> 120

DigitVal(c) == CharCode(c) - 48

Tail_(s, n) == SubSeq(s, n, Len(s))

\* s.lstrip(chars)
RECURSIVE LStripSet(_, _)
LStripSet(s, chars) ==
    IF s # <<>> /\ Head(s) \in chars THEN LStripSet(Tail(s), chars) ELSE s

\* s.rstrip(chars)
RECURSIVE RStripSet(_, _)
RStripSet(s, chars) ==
    IF s # <<>> /\ s[Len(s)] \in chars
    THEN RStripSet(SubSeq(s, 1, Len(s) - 1), chars)
    ELSE s

\* s.strip()
Strip(s) == RStripSet(LStripSet(s, Whitespace), Whitespace)

\* s.startswith(p)
StartsWith(s, p) == Len(s) >= Len(p) /\ SubSeq(s, 1, Len(p)) = p

\* s.replace(p, '')
RECURSIVE Remove(_, _)
Remove(s, p) ==
    IF s = <<>> THEN <<>>
    ELSE IF StartsWith(s, p) THEN Remove(Tail_(s, Len(p) + 1), p)
    ELSE <<Head(s)>> \o Remove(Tail(s), p)

\* ',' in line
HasComma(line) == \E i \in 1..Len(line) : line[i] = ","

\* line.split(',', 1): <<before the first comma, after it>>
SplitComma(line) ==
    LET i == CHOOSE j \in 1..Len(line) :
                 line[j] = "," /\ \A k \in 1..(j - 1) : line[k] # ","
    IN  <<SubSeq(line, 1, i - 1), Tail_(line, i + 1)>>

\* x.isdigit()
IsDigit(x) == x # <<>> /\ \A i \in 1..Len(x) : x[i] \in Digits

\* int(x) for a string of digits
RECURSIVE DigitsValue(_)
DigitsValue(x) ==
    IF x = <<>> THEN 0
    ELSE 10 * DigitsValue(SubSeq(x, 1, Len(x) - 1)) + DigitVal(x[Len(x)])

\* int(x) succeeds: optional sign, then digits, surrounding whitespace allowed
IntParses(x) ==
    LET t == Strip(x)
        u == IF t # <<>> /\ Head(t) \in {"-", "+"} THEN Tail(t) ELSE t
    IN  IsDigit(u)

\* int(x), when it succeeds
IntOf(x) ==
    LET t == Strip(x)
    IN  IF t # <<>> /\ Head(t) = "-" THEN 0 - DigitsValue(Tail(t))
        ELSE IF t # <<>> /\ Head(t) = "+" THEN DigitsValue(Tail(t))
        ELSE DigitsValue(t)

\* lexicographic a < b on strings
RECURSIVE StrLess(_, _)
StrLess(a, b) ==
    IF b = <<>> THEN FALSE
    ELSE IF a = <<>> THEN TRUE
    ELSE IF Head(a) = Head(b) THEN StrLess(Tail(a), Tail(b))
    ELSE CharCode(Head(a)) < CharCode(Head(b))

(***************************************************************************)
(* normalize_upc                                                           *)
(***************************************************************************)
normalize_upc(upc) == Strip(LStripSet(upc, {"0"}))

(***************************************************************************)
(* Specification SpecNorm: normalize_upc applied to a raw string, then to  *)
(* its own result.                                                         *)
(***************************************************************************)
NormAlphabet == {"0", " ", "1"}

RECURSIVE StringsUpTo(_, _)
StringsUpTo(alphabet, n) ==
    IF n = 0 THEN {<<>>}
    ELSE LET shorter == StringsUpTo(alphabet, n - 1)
         IN  shorter \cup {<<c>> \o s : c \in alphabet, s \in {t \in shorter : Len(t) = n - 1}}

NoFiles == <<>>

NoDict == <<>>

NoLoc == [code |-> <<>>, reserved |-> 0, qty_needed |-> 0, scanned_total |-> 0,
          allocation |-> <<>>, sorted |-> <<>>, k |-> 0]

IdleMain ==
    /\ box_file_contents = NoFiles /\ fi = 0 /\ li = 0
    /\ orders = <<>> /\ boxes = NoDict /\ heap = NoDict
    /\ boxes_remaining = NoDict /\ data = <<>> /\ loc = NoLoc
    /\ runs = 0 /\ first_data = <<>> /\ parsed = NoDict

InitNorm ==
    /\ pc = "normalize"
    /\ arg \in StringsUpTo(NormAlphabet, MaxLen)
    /\ ret = <<>>
    /\ IdleMain

\* one call of normalize_upc: on the raw string first, then on the last result
NormalizeCall ==
    /\ pc = "normalize"
    /\ Len(ret) < 2
    /\ ret' = Append(ret, normalize_upc(IF ret = <<>> THEN arg ELSE ret[Len(ret)]))
    /\ UNCHANGED <<pc, box_file_contents, fi, li, orders, boxes, heap,
                   boxes_remaining, data, loc, runs, first_data, parsed, arg>>

NextNorm == NormalizeCall

SpecNorm == InitNorm /\ [][NextNorm]_vars

\* C5: normalize_upc is idempotent: applying it to its own result changes nothing.
C5_NormalizeIdempotent ==
    (pc = "normalize" /\ Len(ret) = 2) => ret[2] = ret[1]

(***************************************************************************)
(* Python dicts are functions; the inner dicts of the ledger are objects   *)
(* on a heap, so that a copy and an alias are different things.            *)
(***************************************************************************)
\* d[k] = v
Put(d, k, v) ==
    [x \in DOMAIN d \cup {k} |-> IF x = k THEN v ELSE d[x]]

\* d.get(k, default)
Get(d, k, default) == IF k \in DOMAIN d THEN d[k] ELSE default

RECURSIVE SumOver(_, _)
SumOver(f, S) ==
    IF S = {} THEN 0
    ELSE LET x == CHOOSE y \in S : TRUE IN f[x] + SumOver(f, S \ {x})

\* sum(d.values())
SumValues(d) == SumOver(d, DOMAIN d)

\* the reference of the inner dict the ledger holds for a UPC
BoxesRef(upc) == <<"boxes", upc>>

\* the reference of the inner dict a call of main_results_page makes for a UPC
CopyRef(upc) == <<"copy", upc>>

\* the dict of dicts a reference map denotes
Deref(d, h) == [upc \in DOMAIN d |-> h[d[upc]]]

\* objects no name refers to any more are gone
Collect(h, live) == [r \in DOMAIN h \cap live |-> h[r]]

(***************************************************************************)
(* main_results_page: the allocation pass.                                 *)
(***************************************************************************)
\* key=lambda x: int(x) if x.isdigit() else x
SortKey(x) == IF IsDigit(x) THEN <<"int", DigitsValue(x)>> ELSE <<"str", x>>

\* a < b on two keys of the same type
KeyLess(a, b) ==
    IF a[1] = "int" THEN a[2] < b[2] ELSE StrLess(a[2], b[2])

\* sorted() compares an int key with a str key: TypeError
SortRaises(keys) ==
    \E x, y \in keys : SortKey(x)[1] # SortKey(y)[1]

\* sorted(keys, key=SortKey), for keys of one type. Box-ids with equal sort
\* keys ("2" and "02") would keep the dict's insertion order, which a function
\* does not record: the box-ids of the model have distinct sort keys.
RECURSIVE Sorted(_)
Sorted(keys) ==
    IF keys = {} THEN <<>>
    ELSE LET m == CHOOSE x \in keys :
                      \A y \in keys \ {x} : ~KeyLess(SortKey(y), SortKey(x))
         IN  <<m>> \o Sorted(keys \ {m})

\* a pool that shares the ledger's inner dicts
AliasLedger(b, h) == [pool |-> b, heap |-> h]

\* {upc: box_qtys.copy() for upc, box_qtys in boxes.items()}
CopyLedger(b, h) ==
    LET fresh == {CopyRef(upc) : upc \in DOMAIN b}
    IN  [pool |-> [upc \in DOMAIN b |-> CopyRef(upc)],
         heap |-> [r \in DOMAIN h \cup fresh |->
                      IF r \in fresh THEN h[b[r[2]]] ELSE h[r]]]

\* a guard that lets an empty box be drawn from
DrawGuardNoBoxCheck(box_qty, qty_needed) == qty_needed > 0

\* if box_qty > 0 and qty_needed > 0
DrawGuard(box_qty, qty_needed) == box_qty > 0 /\ qty_needed > 0

Min(a, b) == IF a <= b THEN a ELSE b

\* a draw that ignores what the box holds
AllocateQtyNoMin(qty_needed, box_qty) == qty_needed

\* a draw that takes the whole box
AllocateQtyWholeBox(qty_needed, box_qty) == box_qty

\* allocate_qty = min(qty_needed, box_qty)
AllocateQty(qty_needed, box_qty) == Min(qty_needed, box_qty)

\* a pool that is never consumed
NewBoxQtyKept(box_qty, allocate_qty) == box_qty

\* boxes_remaining[code][box_no] -= allocate_qty
NewBoxQty(box_qty, allocate_qty) == box_qty - allocate_qty

Note(text, n) == [text |-> text, n |-> n]

None == <<>>

\* the rules with "Already invoiced" tried after "To unreserve and invoice"
ClassifySwapped(scanned_total, reserved, confirmed, total, balance) ==
    IF scanned_total = reserved /\ reserved > 0
    THEN [note |-> Note("To invoice", None), missing |-> None]
    ELSE IF scanned_total < reserved /\ reserved > 0
    THEN [note |-> Note("To unreserve and invoice (missing: N)", <<reserved - scanned_total>>),
          missing |-> <<reserved - scanned_total>>]
    ELSE IF scanned_total <= confirmed /\ confirmed > 0
    THEN [note |-> Note("Already invoiced", None), missing |-> None]
    ELSE IF scanned_total > total
    THEN [note |-> Note("Check: Over-packed", None), missing |-> None]
    ELSE IF scanned_total = 0 /\ balance > 0
    THEN [note |-> Note("Not found (missing: N)", <<balance>>), missing |-> <<balance>>]
    ELSE [note |-> Note("", None), missing |-> None]

\* the if/elif chain that sets note and missing
Classify(scanned_total, reserved, confirmed, total, balance) ==
    IF scanned_total = reserved /\ reserved > 0
    THEN [note |-> Note("To invoice", None), missing |-> None]
    ELSE IF scanned_total <= confirmed /\ confirmed > 0
    THEN [note |-> Note("Already invoiced", None), missing |-> None]
    ELSE IF scanned_total < reserved /\ reserved > 0
    THEN [note |-> Note("To unreserve and invoice (missing: N)", <<reserved - scanned_total>>),
          missing |-> <<reserved - scanned_total>>]
    ELSE IF scanned_total > total
    THEN [note |-> Note("Check: Over-packed", None), missing |-> None]
    ELSE IF scanned_total = 0 /\ balance > 0
    THEN [note |-> Note("Not found (missing: N)", <<balance>>), missing |-> <<balance>>]
    ELSE [note |-> Note("", None), missing |-> None]

IdleParse == UNCHANGED <<box_file_contents, fi, li>>

IdlePure == UNCHANGED <<arg, ret>>

\* boxes_remaining = {...}; data = []
EnterResults ==
    /\ pc = "tab1"
    /\ LET c == CopyLedger(boxes, heap)
       IN  /\ boxes_remaining' = c.pool
           /\ heap' = c.heap
    /\ data' = <<>>
    /\ loc' = NoLoc
    /\ pc' = "for_row"
    /\ UNCHANGED <<orders, boxes, runs, first_data, parsed>>
    /\ IdleParse /\ IdlePure

\* for idx, row in orders.iterrows(): the row's fields, and the sorted box-ids
RowBegin ==
    /\ pc = "for_row"
    /\ Len(data) < Len(orders)
    /\ LET row == orders[Len(data) + 1]
           code == normalize_upc(row.upc)
           keys == IF code \in DOMAIN boxes_remaining
                   THEN DOMAIN heap[boxes_remaining[code]] ELSE {}
       IN  IF SortRaises(keys)
           THEN /\ pc' = "TypeError"
                /\ loc' = [NoLoc EXCEPT !.code = code, !.reserved = row.reserved,
                                        !.qty_needed = row.reserved]
           ELSE /\ loc' = [code |-> code, reserved |-> row.reserved,
                           qty_needed |-> row.reserved, scanned_total |-> 0,
                           allocation |-> <<>>, sorted |-> Sorted(keys), k |-> 1]
                /\ pc' = IF keys = {} THEN "classify" ELSE "for_box"
    /\ UNCHANGED <<orders, boxes, heap, boxes_remaining, data, runs, first_data, parsed>>
    /\ IdleParse /\ IdlePure

\* one iteration of: for box_no in sorted(...)
BoxStep ==
    /\ pc = "for_box"
    /\ LET ref == boxes_remaining[loc.code]
           box_no == loc.sorted[loc.k]
           box_qty == heap[ref][box_no]
           draw == DrawGuard(box_qty, loc.qty_needed)
           allocate_qty == AllocateQty(loc.qty_needed, box_qty)
           needed == IF draw THEN loc.qty_needed - allocate_qty ELSE loc.qty_needed
       IN  /\ loc' = [loc EXCEPT
                        !.allocation = IF draw THEN Append(@, <<box_no, allocate_qty>>) ELSE @,
                        !.qty_needed = needed,
                        !.scanned_total = IF draw THEN @ + allocate_qty ELSE @,
                        !.k = @ + 1]
           /\ heap' = IF draw
                      THEN [heap EXCEPT ![ref][box_no] = NewBoxQty(box_qty, allocate_qty)]
                      ELSE heap
           /\ pc' = IF needed = 0 \/ loc.k = Len(loc.sorted) THEN "classify" ELSE "for_box"
    /\ UNCHANGED <<orders, boxes, boxes_remaining, data, runs, first_data, parsed>>
    /\ IdleParse /\ IdlePure

\* the note, then data.append({...})
RowEnd ==
    /\ pc = "classify"
    /\ LET row == orders[Len(data) + 1]
           c == Classify(loc.scanned_total, row.reserved, row.confirmed,
                         row.total, row.balance)
       IN  data' = Append(data,
                     [order_no |-> row.order_no, code |-> loc.code, total |-> row.total,
                      reserved |-> row.reserved, confirmed |-> row.confirmed,
                      balance |-> row.balance, allocated_qty |-> loc.scanned_total,
                      allocated_boxes |-> loc.allocation, note |-> c.note])
    /\ loc' = NoLoc
    /\ pc' = "for_row"
    /\ UNCHANGED <<orders, boxes, heap, boxes_remaining, runs, first_data, parsed>>
    /\ IdleParse /\ IdlePure

\* the loop is over: the table is shown, the call returns and its pool is dropped
ResultsReturn ==
    /\ pc = "for_row"
    /\ Len(data) = Len(orders)
    /\ runs' = runs + 1
    /\ first_data' = IF runs = 0 THEN data ELSE first_data
    /\ boxes_remaining' = NoDict
    /\ heap' = Collect(heap, {boxes[upc] : upc \in DOMAIN boxes})
    /\ pc' = "shown"
    /\ UNCHANGED <<orders, boxes, data, loc, parsed>>
    /\ IdleParse /\ IdlePure

\* the script runs again on the same parsed orders and ledger
Rerun ==
    /\ pc = "shown"
    /\ runs < MaxRuns
    /\ pc' = "tab1"
    /\ UNCHANGED <<orders, boxes, heap, boxes_remaining, data, loc, runs, first_data, parsed>>
    /\ IdleParse /\ IdlePure

(***************************************************************************)
(* Specification Spec: main() after parse_orders and parse_boxes returned, *)
(* running main_results_page once on the parsed orders and ledger.         *)
(***************************************************************************)
SeqsUpTo(S, n) == UNION {[1..k -> S] : k \in 0..n}

\* raw UPC CODE cells: "1" and "01" normalize alike, "7" is another item
RawUPCs == {<<"1">>, <<"0", "1">>, <<"7">>}

\* the box-id sets of a UPC: numeric, non-numeric, mixed, single
BoxIdSets ==
    { {<<"2">>, <<"1", "0">>}, {<<"A", "B">>, <<"B">>}, {<<"2">>, <<"B">>}, {<<"1", "0">>} }

\* ledgers parse_boxes can return: UPC "1" in one of the box-id sets, and,
\* beside the numeric set, UPC "7" either not scanned or scanned once into box "2"
Ledgers ==
    LET one == UNION {{(<<"1">> :> inner) : inner \in [ids -> 0..MaxQty]} : ids \in BoxIdSets}
    IN  one \cup {l @@ (<<"7">> :> (<<"2">> :> 1)) :
                    l \in {x \in one : DOMAIN x[<<"1">>] = {<<"2">>, <<"1", "0">>}}}

\* order rows whose quantities add up: nothing confirmed, nothing left over
AllocRows ==
    {[order_no |-> 1, upc |-> u, total |-> r, reserved |-> r, confirmed |-> 0, balance |-> 0] :
        u \in RawUPCs, r \in 0..MaxQty}

InitMain(orderSeqs, ledgers) ==
    /\ pc = "tab1"
    /\ orders \in orderSeqs
    /\ \E l \in ledgers :
          /\ parsed = l
          /\ boxes = [upc \in DOMAIN l |-> BoxesRef(upc)]
          /\ heap = [r \in {BoxesRef(upc) : upc \in DOMAIN l} |-> l[r[2]]]
    /\ boxes_remaining = NoDict /\ data = <<>> /\ loc = NoLoc
    /\ runs = 0 /\ first_data = <<>>
    /\ box_file_contents = NoFiles /\ fi = 0 /\ li = 0
    /\ arg = <<>> /\ ret = <<>>

Init == InitMain(SeqsUpTo(AllocRows, MaxOrders), Ledgers)

Next ==
    \/ EnterResults
    \/ RowBegin
    \/ BoxStep
    \/ RowEnd
    \/ ResultsReturn

Spec == Init /\ [][Next]_vars

(***************************************************************************)
(* Specification SpecRerun: the script run again and again on the same     *)
(* parsed orders and ledger, up to MaxRuns calls of main_results_page.     *)
(***************************************************************************)
RerunRows == {r \in AllocRows : r.upc \in {<<"1">>, <<"7">>}}

\* UPC "1" scanned into boxes "2" and "10", UPC "7" scanned or not
RerunLedgers == {l \in Ledgers : DOMAIN l[<<"1">>] = {<<"2">>, <<"1", "0">>}}

InitRerun == InitMain(SeqsUpTo(RerunRows, MaxOrders), RerunLedgers)

NextRerun ==
    \/ EnterResults
    \/ RowBegin
    \/ BoxStep
    \/ RowEnd
    \/ ResultsReturn
    \/ Rerun

SpecRerun == InitRerun /\ [][NextRerun]_vars

(***************************************************************************)
(* Properties of the allocation pass.                                      *)
(***************************************************************************)
\* total scanned quantity of a normalized UPC in a ledger
Scanned(ledger, upc) == IF upc \in DOMAIN ledger THEN SumValues(ledger[upc]) ELSE 0

RECURSIVE SumSeq(_, _)
SumSeq(f, n) == IF n = 0 THEN 0 ELSE f[n] + SumSeq(f, n - 1)

\* what the first n result rows drew for a normalized UPC
AllocatedTo(upc, n) ==
    SumSeq([i \in 1..n |-> IF data[i].code = upc THEN data[i].allocated_qty ELSE 0], n)

\* what the first n order rows reserved of a normalized UPC
ReservedOf(upc, n) ==
    SumSeq([i \in 1..n |-> IF normalize_upc(orders[i].upc) = upc
                           THEN orders[i].reserved ELSE 0], n)

BreakdownSum(allocation) ==
    SumSeq([i \in 1..Len(allocation) |-> allocation[i][2]], Len(allocation))

Max(a, b) == IF a >= b THEN a ELSE b

\* C1: for every normalized UPC the order lines together draw at most what was
\* scanned of it, and at every step of the pass each remaining (UPC, box)
\* quantity lies between 0 and its scanned quantity.
C1_AllocatedWithinScanned ==
    /\ \A i \in 1..Len(data) :
          AllocatedTo(data[i].code, Len(data)) <= Scanned(parsed, data[i].code)
    /\ \A upc \in DOMAIN boxes_remaining :
          \A box_no \in DOMAIN heap[boxes_remaining[upc]] :
             /\ heap[boxes_remaining[upc]][box_no] >= 0
             /\ heap[boxes_remaining[upc]][box_no] <= parsed[upc][box_no]

\* two lines of one UPC have drawn, between them, everything that was scanned
C1_Witness ==
    /\ pc = "shown"
    /\ \E i, j \in 1..Len(data) :
          /\ i < j /\ data[i].code = data[j].code
          /\ data[i].allocated_qty > 0 /\ data[j].allocated_qty > 0
          /\ AllocatedTo(data[i].code, Len(data)) = Scanned(parsed, data[i].code)

\* C2: a line's ALLOCATED QTY is the sum of its breakdown and is
\* min(reserved, stock left in the pool for its UPC when it is processed);
\* every recorded draw is non-zero; reserved = 0 or an unscanned UPC gives 0
\* and an empty breakdown.
C2_AllocatedIsMinOfReservedAndStock ==
    /\ \A i \in 1..Len(data) :
          LET r == data[i]
              before == Scanned(parsed, r.code) - AllocatedTo(r.code, i - 1)
          IN  /\ r.allocated_qty = BreakdownSum(r.allocated_boxes)
              /\ r.allocated_qty = Min(r.reserved, before)
              /\ \A m \in 1..Len(r.allocated_boxes) : r.allocated_boxes[m][2] # 0
              /\ (r.reserved = 0 \/ r.code \notin DOMAIN parsed)
                    => (r.allocated_qty = 0 /\ r.allocated_boxes = <<>>)
    /\ pc = "classify" =>
          LET left == IF loc.code \in DOMAIN boxes_remaining
                      THEN SumValues(heap[boxes_remaining[loc.code]]) ELSE 0
          IN  loc.scanned_total = Min(loc.reserved, left + loc.scanned_total)

\* one line drew from two boxes, another got less than it reserved
C2_Witness ==
    \E i, j \in 1..Len(data) :
       /\ Len(data[i].allocated_boxes) = 2
       /\ data[j].allocated_qty > 0
       /\ data[j].allocated_qty < data[j].reserved

\* C3: among lines of one normalized UPC the earlier row is served first: a
\* later line gets something only if every earlier one got all it reserved,
\* and what a line gets is decided by the scanned stock and the rows before
\* it alone.
C3_FirstComeFirstServed ==
    /\ \A i, j \in 1..Len(data) :
          (i < j /\ data[i].code = data[j].code /\ data[j].allocated_qty > 0)
             => data[i].allocated_qty = data[i].reserved
    /\ \A i \in 1..Len(data) :
          data[i].allocated_qty =
             Min(orders[i].reserved,
                 Max(0, Scanned(parsed, data[i].code) - ReservedOf(data[i].code, i - 1)))

\* rows "1" and "01" compete: the first is served in full, the second in part
C3_Witness ==
    \E i, j \in 1..Len(data) :
       /\ i < j /\ data[i].code = data[j].code /\ orders[i].upc # orders[j].upc
       /\ data[i].allocated_qty = data[i].reserved
       /\ data[j].allocated_qty > 0
       /\ data[j].allocated_qty < data[j].reserved

\* the order the breakdown is documented to follow
DocumentedBefore(a, b) ==
    IF IsDigit(a) /\ IsDigit(b) THEN DigitsValue(a) < DigitsValue(b)
    ELSE IF ~IsDigit(a) /\ ~IsDigit(b) THEN StrLess(a, b)
    ELSE TRUE

\* C6: for every set of box-ids of a UPC (numeric, non-numeric or mixed) the
\* pass completes and lists the boxes it drew from with the integer box-ids in
\* ascending numeric order and the others in lexicographic order.
C6_BreakdownInBoxOrder ==
    /\ pc # "TypeError"
    /\ \A i \in 1..Len(data) :
          \A m, n \in 1..Len(data[i].allocated_boxes) :
             m < n => DocumentedBefore(data[i].allocated_boxes[m][1],
                                       data[i].allocated_boxes[n][1])

\* C8: the pass consumes a copy: the ledger holds every scanned quantity
\* during and after the pass, and a second pass over the same orders and
\* ledger returns the rows the first one returned.
C8_LedgerUnchangedAndRerunIdentical ==
    /\ Deref(boxes, heap) = parsed
    /\ (pc = "shown" /\ runs >= 1) => data = first_data

\* a second pass has returned, and a line drew stock in it
C8_Witness ==
    /\ pc = "shown" /\ runs = 2
    /\ \E i \in 1..Len(data) : data[i].allocated_qty > 0

(***************************************************************************)
(* Specification SpecNote: the same pass over order rows whose TOTAL,      *)
(* CONFIRMED and BALANCE vary freely (all non-negative), for the notes.    *)
(***************************************************************************)
NoteQtys == {0, 1}

NoteRows ==
    {[order_no |-> 1, upc |-> <<"1">>, total |-> t, reserved |-> r, confirmed |-> c, balance |-> b] :
        t \in NoteQtys, r \in 0..MaxQty, c \in NoteQtys, b \in NoteQtys}

\* UPC "1" not scanned, or scanned into box "2"
NoteLedgers ==
    {NoDict} \cup {(<<"1">> :> (<<"2">> :> q)) : q \in 0..MaxQty}

InitNote == InitMain(SeqsUpTo(NoteRows, MaxOrders), NoteLedgers)

NextNote ==
    \/ EnterResults
    \/ RowBegin
    \/ BoxStep
    \/ RowEnd
    \/ ResultsReturn

SpecNote == InitNote /\ [][NextNote]_vars

\* C10: with non-negative TOTAL and RESERVED and non-negative box quantities
\* no line of the allocation table is noted "Check: Over-packed".
C10_NeverOverPacked ==
    \A i \in 1..Len(data) :
       (data[i].total >= 0 /\ data[i].reserved >= 0)
          => data[i].note.text # "Check: Over-packed"

\* a line with nothing reserved and stock in the pool reached the note rules,
\* and a line with TOTAL below what it drew was noted
C10_Witness ==
    /\ \E i \in 1..Len(data) :
          /\ data[i].reserved = 0 /\ data[i].total = 0
          /\ Scanned(parsed, data[i].code) > 0
    /\ \E j \in 1..Len(data) :
          /\ data[j].allocated_qty > data[j].total
          /\ data[j].note.text = "To invoice"

(***************************************************************************)
(* Specification SpecClassify: the note rules on free integer inputs.      *)
(***************************************************************************)
ClassifyInts == -1..MaxQty

InitClassify ==
    /\ pc = "classify_call"
    /\ arg \in [scanned_total : ClassifyInts, reserved : ClassifyInts,
                confirmed : ClassifyInts, total : ClassifyInts, balance : ClassifyInts]
    /\ ret = <<>>
    /\ IdleMain

ClassifyCall ==
    /\ pc = "classify_call"
    /\ ret = <<>>
    /\ ret' = <<Classify(arg.scanned_total, arg.reserved, arg.confirmed, arg.total, arg.balance)>>
    /\ UNCHANGED <<pc, box_file_contents, fi, li, orders, boxes, heap,
                   boxes_remaining, data, loc, runs, first_data, parsed, arg>>

NextClassify == ClassifyCall

SpecClassify == InitClassify /\ [][NextClassify]_vars

\* the documented rules, in their documented order
NoteRules(a) ==
    << [when |-> a.scanned_total = a.reserved /\ a.reserved > 0,
        note |-> Note("To invoice", None), missing |-> None],
       [when |-> a.scanned_total <= a.confirmed /\ a.confirmed > 0,
        note |-> Note("Already invoiced", None), missing |-> None],
       [when |-> a.scanned_total < a.reserved /\ a.reserved > 0,
        note |-> Note("To unreserve and invoice (missing: N)", <<a.reserved - a.scanned_total>>),
        missing |-> <<a.reserved - a.scanned_total>>],
       [when |-> a.scanned_total > a.total,
        note |-> Note("Check: Over-packed", None), missing |-> None],
       [when |-> a.scanned_total = 0 /\ a.balance > 0,
        note |-> Note("Not found (missing: N)", <<a.balance>>), missing |-> <<a.balance>>],
       [when |-> TRUE,
        note |-> Note("", None), missing |-> None] >>

\* C4: the note (and the missing quantity) is that of the first rule that
\* matches, the rules taken in the documented order.
C4_FirstMatchingRule ==
    (pc = "classify_call" /\ ret # <<>>) =>
       \A n \in 1..Len(NoteRules(arg)) :
          (NoteRules(arg)[n].when /\ \A m \in 1..(n - 1) : ~NoteRules(arg)[m].when)
             => (ret[1].note = NoteRules(arg)[n].note
                 /\ ret[1].missing = NoteRules(arg)[n].missing)

\* a short line whose draw is covered by what is confirmed: "Already invoiced"
C4_Witness ==
    /\ pc = "classify_call" /\ ret # <<>>
    /\ arg.scanned_total < arg.reserved /\ arg.scanned_total > 0
    /\ arg.scanned_total <= arg.confirmed
    /\ ret[1].note.text = "Already invoiced"

(***************************************************************************)
(* order_status_page                                                       *)
(***************************************************************************)
\* a line with nothing reserved leaves the order complete
LineStatusZeroReservedOk(needed, found) ==
    IF needed > 0
    THEN IF found = needed THEN [status |-> Note("Ready to Invoice", None), complete |-> TRUE]
         ELSE IF found = 0 THEN [status |-> Note("Not Found in Box", None), complete |-> FALSE]
         ELSE IF 0 < found /\ found < needed
         THEN [status |-> Note("Missing: N", <<needed - found>>), complete |-> FALSE]
         ELSE IF found > needed
         THEN [status |-> Note("Over-packed (found: N, reserved: N)", <<found, needed>>),
               complete |-> TRUE]
         ELSE [status |-> Note("", None), complete |-> TRUE]
    ELSE [status |-> Note("Not Available in Stock", None), complete |-> TRUE]

\* the status of one line, and whether it leaves `complete` as it is
LineStatus(needed, found) ==
    IF needed > 0
    THEN IF found = needed THEN [status |-> Note("Ready to Invoice", None), complete |-> TRUE]
         ELSE IF found = 0 THEN [status |-> Note("Not Found in Box", None), complete |-> FALSE]
         ELSE IF 0 < found /\ found < needed
         THEN [status |-> Note("Missing: N", <<needed - found>>), complete |-> FALSE]
         ELSE IF found > needed
         THEN [status |-> Note("Over-packed (found: N, reserved: N)", <<found, needed>>),
               complete |-> TRUE]
         ELSE [status |-> Note("", None), complete |-> TRUE]
    ELSE [status |-> Note("Not Available in Stock", None), complete |-> FALSE]

\* sorted(orders_to_check['ORDER NO'].unique()), as a set
OrderNumbers == {orders[i].order_no : i \in {j \in 1..Len(orders) : orders[j].reserved > 0}}

\* orders[orders['ORDER NO'] == order_sel], as row indices
OrderRows(order_sel) == {i \in 1..Len(orders) : orders[i].order_no = order_sel}

\* upc_boxes.get(upc, []): the boxes holding a positive quantity of the UPC
UpcBoxes(ledger, upc) ==
    IF upc \in DOMAIN ledger
    THEN {box_no \in DOMAIN ledger[upc] : ledger[upc][box_no] > 0}
    ELSE {}

\* no order has a reserved quantity: the view says so and returns
OrderStatusNone ==
    /\ pc = "tab4"
    /\ OrderNumbers = {}
    /\ pc' = "no_pending"
    /\ UNCHANGED <<orders, boxes, heap, boxes_remaining, data, loc, runs, first_data,
                   parsed, arg, ret>>
    /\ IdleParse

\* an order is selected and its lines are listed
OrderStatusShow ==
    /\ pc = "tab4"
    /\ \E order_sel \in OrderNumbers :
          LET ledger == Deref(boxes, heap)
              rows == OrderRows(order_sel)
              item(i) == LineStatus(orders[i].reserved,
                                    Scanned(ledger, normalize_upc(orders[i].upc)))
          IN  IF \E i \in rows : SortRaises(UpcBoxes(ledger, normalize_upc(orders[i].upc)))
              THEN /\ pc' = "TypeError"
                   /\ ret' = ret
                   /\ arg' = order_sel
              ELSE /\ pc' = "status_shown"
                   /\ arg' = order_sel
                   /\ ret' = <<[complete |-> \A i \in rows : item(i).complete,
                                items |-> [i \in rows |-> item(i).status]]>>
    /\ UNCHANGED <<orders, boxes, heap, boxes_remaining, data, loc, runs, first_data, parsed>>
    /\ IdleParse

(***************************************************************************)
(* Specification SpecStatus: order_status_page on parsed orders and ledger.*)
(***************************************************************************)
StatusRows ==
    {[order_no |-> n, upc |-> u, total |-> r, reserved |-> r, confirmed |-> 0, balance |-> 0] :
        n \in {1, 2}, u \in RawUPCs, r \in 0..MaxQty}

\* UPC "1" scanned into boxes "2" and "10", or into boxes "2" and "B"
StatusLedgers ==
    UNION {{(<<"1">> :> inner) : inner \in [ids -> 0..MaxQty]} :
              ids \in { {<<"2">>, <<"1", "0">>}, {<<"2">>, <<"B">>} }}

InitStatus ==
    /\ pc = "tab4"
    /\ orders \in SeqsUpTo(StatusRows, MaxOrders)
    /\ \E l \in StatusLedgers :
          /\ parsed = l
          /\ boxes = [upc \in DOMAIN l |-> BoxesRef(upc)]
          /\ heap = [r \in {BoxesRef(upc) : upc \in DOMAIN l} |-> l[r[2]]]
    /\ boxes_remaining = NoDict /\ data = <<>> /\ loc = NoLoc
    /\ runs = 0 /\ first_data = <<>>
    /\ box_file_contents = NoFiles /\ fi = 0 /\ li = 0
    /\ arg = <<>> /\ ret = <<>>

NextStatus ==
    \/ OrderStatusNone
    \/ OrderStatusShow

SpecStatus == InitStatus /\ [][NextStatus]_vars

\* C9 as stated: the selected order is reported COMPLETE exactly when every
\* line of it has a scanned quantity of at least its reserved quantity,
\* lines with reserved = 0 included.
C9_CompleteIffAllScannedCoverReserved ==
    pc = "status_shown" =>
       (ret[1].complete <=>
           \A i \in OrderRows(arg) :
              Scanned(parsed, normalize_upc(orders[i].upc)) >= orders[i].reserved)

\* C9 as amended: the selected order is reported COMPLETE exactly when every
\* line of it has a positive reserved quantity and a scanned quantity of at
\* least that (box quantities being non-negative).
C9_CompleteIffAllReservedAndCovered ==
    pc = "status_shown" =>
       (ret[1].complete <=>
           \A i \in OrderRows(arg) :
              /\ orders[i].reserved > 0
              /\ Scanned(parsed, normalize_upc(orders[i].upc)) >= orders[i].reserved)

\* an order of two lines is shown COMPLETE: one line scanned exactly, one over-packed
C9_Witness ==
    /\ pc = "status_shown"
    /\ ret[1].complete
    /\ \E i, j \in OrderRows(arg) :
          /\ Scanned(parsed, normalize_upc(orders[i].upc)) = orders[i].reserved
          /\ Scanned(parsed, normalize_upc(orders[j].upc)) > orders[j].reserved

(***************************************************************************)
(* parse_boxes                                                             *)
(***************************************************************************)
\* filename.replace('BOX NO', '').replace('.TXT','').replace('.txt','').strip()
BoxNoOf(filename) ==
    Strip(Remove(Remove(Remove(filename, <<"B", "O", "X", " ", "N", "O">>),
                        <<".", "T", "X", "T">>),
                 <<".", "t", "x", "t">>))

IdleResults == UNCHANGED <<orders, boxes_remaining, data, loc, runs, first_data>>

\* one line of a file: skipped without a comma, accumulated with one, and
\* int() raising ValueError on a quantity that is no integer
ParseLine ==
    /\ pc = "parse_boxes"
    /\ fi <= Len(box_file_contents)
    /\ li <= Len(box_file_contents[fi][2])
    /\ LET box_no == BoxNoOf(box_file_contents[fi][1])
           line == box_file_contents[fi][2][li]
           fields == SplitComma(Strip(line))
           code_norm == normalize_upc(fields[1])
           ref == BoxesRef(code_norm)
           old == IF code_norm \in DOMAIN boxes THEN heap[ref] ELSE NoDict
       IN  IF ~HasComma(line)
           THEN /\ li' = li + 1
                /\ UNCHANGED <<pc, boxes, heap>>
           ELSE IF ~IntParses(fields[2])
           THEN /\ pc' = "ValueError"
                /\ UNCHANGED <<li, boxes, heap>>
           ELSE /\ li' = li + 1
                /\ boxes' = Put(boxes, code_norm, ref)
                /\ heap' = Put(heap, ref,
                               Put(old, box_no, Get(old, box_no, 0) + IntOf(Strip(fields[2]))))
                /\ pc' = pc
    /\ UNCHANGED <<box_file_contents, fi, parsed, arg, ret>>
    /\ IdleResults

\* the lines of a file are read: on to the next file
NextFile ==
    /\ pc = "parse_boxes"
    /\ fi <= Len(box_file_contents)
    /\ li > Len(box_file_contents[fi][2])
    /\ fi' = fi + 1
    /\ li' = 1
    /\ UNCHANGED <<pc, box_file_contents, boxes, heap, parsed, arg, ret>>
    /\ IdleResults

\* return boxes
ParseReturn ==
    /\ pc = "parse_boxes"
    /\ fi > Len(box_file_contents)
    /\ parsed' = Deref(boxes, heap)
    /\ pc' = "tab1"
    /\ UNCHANGED <<box_file_contents, fi, li, boxes, heap, arg, ret>>
    /\ IdleResults

(***************************************************************************)
(* Specification SpecParse: main() calling parse_boxes on the box files.   *)
(***************************************************************************)
\* "BOX NO 2.TXT" and "A.txt"
FileNames ==
    { <<"B", "O", "X", " ", "N", "O", " ", "2", ".", "T", "X", "T">>,
      <<"A", ".", "t", "x", "t">> }

\* "1,2"   "01, 1"   "1,x"   "12"
ScanLines ==
    { <<"1", ",", "2">>, <<"0", "1", ",", " ", "1">>, <<"1", ",", "x">>, <<"1", "2">> }

\* the filenames of a dict: no name twice
FileNameSeqs ==
    {ns \in SeqsUpTo(FileNames, MaxFiles) :
        \A i, j \in 1..Len(ns) : i # j => ns[i] # ns[j]}

\* dicts of at most MaxFiles files, each of at most MaxLines lines
FileDicts ==
    UNION {{[i \in 1..Len(ns) |-> <<ns[i], cs[i]>>] :
               cs \in [1..Len(ns) -> SeqsUpTo(ScanLines, MaxLines)]} :
           ns \in FileNameSeqs}

InitParse ==
    /\ pc = "parse_boxes"
    /\ box_file_contents \in FileDicts
    /\ fi = 1 /\ li = 1
    /\ boxes = NoDict /\ heap = NoDict /\ parsed = NoDict
    /\ orders = <<>> /\ boxes_remaining = NoDict /\ data = <<>> /\ loc = NoLoc
    /\ runs = 0 /\ first_data = <<>>
    /\ arg = <<>> /\ ret = <<>>

NextParse ==
    \/ ParseLine
    \/ NextFile
    \/ ParseReturn

SpecParse == InitParse /\ [][NextParse]_vars

\* the (box_no, line) pairs of all the files, in reading order
RECURSIVE ScannedLines(_)
ScannedLines(files) ==
    IF files = <<>> THEN <<>>
    ELSE [i \in 1..Len(files[1][2]) |-> <<BoxNoOf(files[1][1]), files[1][2][i]>>]
            \o ScannedLines(Tail(files))

WellFormed(line) == HasComma(line) /\ IntParses(SplitComma(Strip(line))[2])

\* the ledger of the well-formed lines alone
RECURSIVE LedgerOfWellFormed(_)
LedgerOfWellFormed(lines) ==
    IF lines = <<>> THEN NoDict
    ELSE LET rest == LedgerOfWellFormed(SubSeq(lines, 1, Len(lines) - 1))
             box_no == lines[Len(lines)][1]
             line == lines[Len(lines)][2]
             f == SplitComma(Strip(line))
             upc == normalize_upc(f[1])
             old == Get(rest, upc, NoDict)
         IN  IF WellFormed(line)
             THEN Put(rest, upc, Put(old, box_no, Get(old, box_no, 0) + IntOf(Strip(f[2]))))
             ELSE rest

\* C7: a line whose quantity is no integer does not abort the run: once the
\* files are read, parse_boxes has returned the ledger of the well-formed lines.
C7_MalformedQuantitySkipped ==
    /\ pc # "ValueError"
    /\ pc = "tab1" => parsed = LedgerOfWellFormed(ScannedLines(box_file_contents))

====
